---- MODULE Spec2Model ----
(***************************************************************************)
(* The GPIO program of ECE595RL_GPIO/GPIO/main.c: the poll loop of main,   *)
(* the GPIO driver functions and the five LED patterns chosen by           *)
(* LED_Controller.  The program is one thread of control; its position is  *)
(* pc, a label "L<n>" naming source line n, and stack holds the labels to  *)
(* return to.  Each action is one statement of the source.                 *)
(*                                                                         *)
(* State: the three output registers the driver writes (P1->OUT, P2->OUT,  *)
(* P9->OUT), the switch input register P10->IN, the locals of main and of  *)
(* the patterns.  P1->IN is read once per poll iteration and the read may  *)
(* return any value.  The function-select, direction,                      *)
(* drive-strength and resistor-enable registers are written by the init    *)
(* functions only and read nowhere, and are left out.                      *)
(*                                                                         *)
(* trace and invoked are history variables: the input/output events and    *)
(* the pattern routines entered since LED_Controller was last called.      *)
(* call, first and inputs serve the second specification, SpecTwice, which *)
(* calls LED_Controller twice in a row: call numbers the call (0 under     *)
(* main), inputs holds the values P10->IN took after each delay of the     *)
(* call, and first is what the first call left.                            *)
(* Four more history variables: iter, the steps of the current iteration   *)
(* of the poll loop in order; lat, the milliseconds of delay since the     *)
(* switch code was last seen to be 0x04 or the call began; phase, the      *)
(* milliseconds of delay since LED1_Output was last called; blinked,       *)
(* whether both codes have been 0x00 since the previous iteration began.   *)
(***************************************************************************)
EXTENDS Integers, Sequences, FiniteSets, TLC

VARIABLES pc, stack,
          P1_OUT, P2_OUT, P9_OUT,
          P10_IN,
          button_status, switch_status, led_count, sw,
          trace, invoked, inputs,
          call, first,
          iter, lat, phase, blinked

vars == <<pc, stack, P1_OUT, P2_OUT, P9_OUT, P10_IN,
          button_status, switch_status, led_count, sw, trace, invoked, inputs,
          call, first, iter, lat, phase, blinked>>

\* ------------------------------------------------------------------------
\* Bounds of the model

\* LED_Pattern_4 loops for as long as the switches read 0x04; the model
\* follows at most this many on/off cycles of one invocation.
MaxCycles == 3

\* When LED_Controller is called twice in a row, the switches move during
\* at most this many delays of the first call and then stay.
MaxMoves == 2

\* ------------------------------------------------------------------------
\* 8-bit arithmetic of the registers (uint8_t, the C operators & and |)

Bit(x, i) == (x \div (2 ^ i)) % 2

BitAnd(a, b) ==
    LET f[i \in 0..8] ==
            IF i = 8 THEN 0 ELSE Bit(a, i) * Bit(b, i) * (2 ^ i) + f[i + 1]
    IN  f[0]

BitOr(a, b) ==
    LET f[i \in 0..8] ==
            IF i = 8 THEN 0
            ELSE (IF Bit(a, i) + Bit(b, i) > 0 THEN 2 ^ i ELSE 0) + f[i + 1]
    IN  f[0]

BitXor(a, b) ==
    LET f[i \in 0..8] ==
            IF i = 8 THEN 0
            ELSE (IF Bit(a, i) # Bit(b, i) THEN 2 ^ i ELSE 0) + f[i + 1]
    IN  f[0]

\* conversion of an int argument to a uint8_t parameter
ToUint8(x) == x % 256

\* ------------------------------------------------------------------------
\* Program constants

RED_LED_OFF == 0
RED_LED_ON == 1
RGB_LED_OFF == 0
RGB_LED_RED == 1
RGB_LED_GREEN == 2
RGB_LED_BLUE == 4
\* mutant: pink taken for red + green
RGB_LED_PINK_AsYellow == RGB_LED_RED + RGB_LED_GREEN

RGB_LED_PINK == 5
PMOD_8LD_ALL_OFF == 0
PMOD_8LD_ALL_ON == 255
PMOD_8LD_0_ON == 1
PMOD_8LD_1_ON == 2
PMOD_8LD_2_ON == 4
PMOD_8LD_3_ON == 8
PMOD_8LD_4_ON == 16
PMOD_8LD_5_ON == 32
PMOD_8LD_6_ON == 48
PMOD_8LD_7_ON == 64

\* ------------------------------------------------------------------------
\* The hardware the program cannot control

\* Values the output registers may hold at reset (not set by the program).
ResetValues == {0, 255}

\* Values P1->IN may read: the two buttons on bits 1 and 4 (active low),
\* and one value with other pins of the port high as well (0xED).
BtnIn == {0, 2, 16, 18, 237}

\* Values P10->IN may read: every position of the four switches, and one
\* value with pins 4 and 5 of the port high as well (0x31).
SwtIn == (0..15) \cup {49}

\* ------------------------------------------------------------------------
\* History

Emit(e) == trace' = Append(trace, e)

\* what a finished call of LED_Controller leaves to compare with
NoCall == [trace |-> <<>>, inputs |-> <<>>]

\* The values P10->IN may take during a delay.  Under main (call = 0) any
\* value.  When LED_Controller is called twice in a row (call = 1, 2), the
\* switches move during the first MaxMoves delays of the first call only,
\* and in the second call they take the values they had in the first.
SwtNext ==
    IF call = 2 /\ Len(inputs) < Len(first.inputs)
    THEN {first.inputs[Len(inputs) + 1]}
    ELSE IF call # 0 /\ Len(inputs) >= MaxMoves THEN {P10_IN}
    ELSE SwtIn

\* ------------------------------------------------------------------------
\* The GPIO driver

\* mutant: the register overwritten, its other bits lost
LED1_Output_Overwrite(led_value) ==
    /\ P1_OUT' = led_value
    /\ Emit(<<"LED1", BitAnd(P1_OUT', 1)>>)
    /\ phase' = 0
    /\ UNCHANGED <<P2_OUT, P9_OUT, P10_IN, inputs, lat>>

LED1_Output(led_value) ==
    /\ P1_OUT' = BitOr(BitAnd(P1_OUT, 254), led_value)
    /\ Emit(<<"LED1", BitAnd(P1_OUT', 1)>>)
    /\ phase' = 0
    /\ UNCHANGED <<P2_OUT, P9_OUT, P10_IN, inputs, lat>>

\* mutant: LED2_Toggle (P2->OUT ^= led_value) called in place of LED2_Output
LED2_Output_Toggle(led_value) ==
    /\ P2_OUT' = BitXor(P2_OUT, led_value)
    /\ Emit(<<"LED2", BitAnd(P2_OUT', 7)>>)
    /\ UNCHANGED <<P1_OUT, phase, P9_OUT, P10_IN, inputs, lat>>

LED2_Output(led_value) ==
    /\ P2_OUT' = BitOr(BitAnd(P2_OUT, 248), led_value)
    /\ Emit(<<"LED2", BitAnd(P2_OUT', 7)>>)
    /\ UNCHANGED <<P1_OUT, phase, P9_OUT, P10_IN, inputs, lat>>

PMOD_8LD_Output(led_value) ==
    /\ P9_OUT' = led_value
    /\ Emit(<<"PMOD_8LD", P9_OUT'>>)
    /\ UNCHANGED <<P1_OUT, phase, P2_OUT, P10_IN, inputs, lat>>

\* mutant: the input register returned as read
Get_Buttons_Status_Unmasked(in) == in

\* in: the value read from P1->IN
Get_Buttons_Status(in) == BitAnd(in, 18)

Get_PMOD_SWT_Status == BitAnd(P10_IN, 15)

\* Clock_Delay1ms(ms) blocks for ms milliseconds.  The switches may move
\* while it does; every read of P10->IN but the first follows a delay.
Clock_Delay1ms(ms) ==
    /\ Emit(<<"Delay", ms>>)
    /\ P10_IN' \in SwtNext
    /\ inputs' = IF call = 0 THEN inputs ELSE Append(inputs, P10_IN')
    /\ lat' = IF BitAnd(P10_IN', 15) = 4 THEN 0 ELSE lat + ms
    /\ phase' = phase + ms
    /\ UNCHANGED <<P1_OUT, P2_OUT, P9_OUT>>

\* ------------------------------------------------------------------------
\* Control

Goto(from, to) == pc = from /\ pc' = to /\ UNCHANGED <<stack, call, first,
                                                       iter, blinked>>

\* a statement that leaves the locals alone
Stmt(from, to) ==
    /\ Goto(from, to)
    /\ UNCHANGED <<button_status, switch_status, led_count, sw, invoked>>

Call(from, callee, ret) ==
    /\ pc = from
    /\ pc' = callee
    /\ stack' = <<ret>> \o stack
    /\ UNCHANGED <<call, first, iter, blinked>>

\* return from a pattern routine: its locals go out of scope
Return(from) ==
    /\ pc = from
    /\ pc' = Head(stack)
    /\ stack' = Tail(stack)
    /\ UNCHANGED <<call, first, iter, blinked>>
    /\ led_count' = 0
    /\ sw' = 0
    /\ UNCHANGED <<P1_OUT, phase, P2_OUT, P9_OUT, P10_IN, inputs, lat,
                   button_status, switch_status, trace, invoked>>

\* the in-pattern sample: uint8_t switch_status = Get_PMOD_SWT_Status();
Sample(from, to) ==
    /\ Goto(from, to)
    /\ sw' = Get_PMOD_SWT_Status
    /\ Emit(<<"SWT", sw'>>)
    /\ UNCHANGED <<P1_OUT, phase, P2_OUT, P9_OUT, P10_IN, inputs, lat,
                   button_status, switch_status, led_count, invoked>>

\* ------------------------------------------------------------------------
\* main

LED1_Init ==
    /\ Stmt("L37", "L38")
    /\ UNCHANGED <<P1_OUT, phase, P2_OUT, P9_OUT, P10_IN, inputs, lat, trace>>

LED2_Init ==
    /\ Stmt("L38", "L41")
    /\ P2_OUT' = BitAnd(P2_OUT, 248)
    /\ UNCHANGED <<P1_OUT, phase, P9_OUT, P10_IN, inputs, lat, trace>>

Buttons_Init ==
    /\ Stmt("L41", "L44")
    /\ P1_OUT' = BitOr(P1_OUT, 18)
    /\ UNCHANGED <<phase, P2_OUT, P9_OUT, P10_IN, inputs, lat, trace>>

PMOD_8LD_Init ==
    /\ Stmt("L44", "L47")
    /\ P9_OUT' = BitAnd(P9_OUT, 0)
    /\ UNCHANGED <<P1_OUT, phase, P2_OUT, P10_IN, inputs, lat, trace>>

PMOD_SWT_Init ==
    /\ Stmt("L47", "L51")
    /\ UNCHANGED <<P1_OUT, phase, P2_OUT, P9_OUT, P10_IN, inputs, lat, trace>>

main_51 ==
    /\ pc = "L51"
    /\ pc' = "L52"
    /\ \E in \in BtnIn : button_status' = Get_Buttons_Status(in)
    /\ iter' = <<"BTN">>
    /\ blinked' = (blinked /\ button_status' = 0)
    /\ UNCHANGED <<stack, call, first,
                   P1_OUT, phase, P2_OUT, P9_OUT, P10_IN, inputs, lat,
                   switch_status, led_count, sw, trace, invoked>>

main_52 ==
    /\ pc = "L52"
    /\ pc' = "L53"
    /\ switch_status' = Get_PMOD_SWT_Status
    /\ iter' = Append(iter, "SWT")
    /\ blinked' = (blinked /\ switch_status' = 0)
    /\ UNCHANGED <<stack, call, first,
                   P1_OUT, phase, P2_OUT, P9_OUT, P10_IN, inputs, lat,
                   button_status, led_count, sw, trace, invoked>>

main_53 ==
    /\ pc = "L53"
    /\ pc' = "L349"
    /\ stack' = <<"L54">> \o stack
    /\ iter' = Append(iter, "CALL")
    /\ trace' = <<>>
    /\ invoked' = <<>>
    /\ inputs' = <<>>
    /\ lat' = 0
    /\ UNCHANGED <<call, first, blinked,
                   P1_OUT, phase, P2_OUT, P9_OUT, P10_IN,
                   button_status, switch_status, led_count, sw>>

\* the loop closed one statement too late: the buttons are read once only
main_54_SkipButtons ==
    /\ pc = "L54"
    /\ pc' = "L52"
    /\ P10_IN' \in SwtIn
    /\ phase' = phase + 100
    /\ iter' = Append(iter, "DELAY100")
    /\ blinked' = (button_status = 0 /\ switch_status = 0)
    /\ inputs' = <<>>
    /\ lat' = 0
    /\ switch_status' = 0
    /\ trace' = <<>>
    /\ invoked' = <<>>
    /\ UNCHANGED <<stack, call, first, P1_OUT, P2_OUT, P9_OUT,
                   button_status, led_count, sw>>

\* Clock_Delay1ms(100), then the end of the loop body: the two locals go
\* out of scope and the history of the iteration's call is dropped.
main_54 ==
    /\ pc = "L54"
    /\ pc' = "L51"
    /\ P10_IN' \in SwtIn
    /\ phase' = phase + 100
    /\ iter' = Append(iter, "DELAY100")
    /\ blinked' = (button_status = 0 /\ switch_status = 0)
    /\ inputs' = <<>>
    /\ lat' = 0
    /\ button_status' = 0
    /\ switch_status' = 0
    /\ trace' = <<>>
    /\ invoked' = <<>>
    /\ UNCHANGED <<stack, call, first, P1_OUT, P2_OUT, P9_OUT, led_count, sw>>

main ==
    \/ LED1_Init
    \/ LED2_Init
    \/ Buttons_Init
    \/ PMOD_8LD_Init
    \/ PMOD_SWT_Init
    \/ main_51
    \/ main_52
    \/ main_53
    \/ main_54

\* ------------------------------------------------------------------------
\* LED_Controller

\* mutant: the switch code tested bit by bit, not matched by value
PatternFor_BitTest(s) ==
    CASE s = 0 -> "L220"
      [] BitAnd(s, 1) = 1 -> "L268"
      [] BitAnd(s, 2) = 2 -> "L289"
      [] BitAnd(s, 4) = 4 -> "L311"
      [] BitAnd(s, 8) = 8 -> "L333"
      [] OTHER -> "L220"

\* the label of the routine the switch statement of LED_Controller enters
PatternFor(s) ==
    CASE s = 0 -> "L220"
      [] s = 1 -> "L268"
      [] s = 2 -> "L289"
      [] s = 4 -> "L311"
      [] s = 8 -> "L333"
      [] OTHER -> "L220"

PatternName(label) ==
    CASE label = "L220" -> "LED_Pattern_1"
      [] label = "L268" -> "LED_Pattern_2"
      [] label = "L289" -> "LED_Pattern_3"
      [] label = "L311" -> "LED_Pattern_4"
      [] label = "L333" -> "LED_Pattern_5"

LED_Controller ==
    \/ /\ Call("L349", PatternFor(switch_status), "L386")
       /\ invoked' = Append(invoked, PatternName(pc'))
       /\ UNCHANGED <<P1_OUT, phase, P2_OUT, P9_OUT, P10_IN, inputs, lat,
                      button_status, switch_status, led_count, sw, trace>>
    \/ /\ pc = "L386"
       /\ pc' = Head(stack)
       /\ stack' = Tail(stack)
       /\ iter' = Append(iter, "RET")
       /\ UNCHANGED <<call, first, blinked,
                      P1_OUT, phase, P2_OUT, P9_OUT, P10_IN, inputs, lat,
                      button_status, switch_status, led_count, sw,
                      trace, invoked>>

\* ------------------------------------------------------------------------
\* LED_Pattern_1

\* mutant: the buttons taken as active high (0x12: both pressed)
LP1_Case_ActiveHigh(b) ==
    CASE b = 18 -> "L225"
      [] b = 2 -> "L239"
      [] b = 16 -> "L249"
      [] b = 0 -> "L258"
      [] OTHER -> "L264"

\* mutant: the cases of button 1 and button 2 exchanged
LP1_Case_Swapped(b) ==
    CASE b = 0 -> "L225"
      [] b = 2 -> "L239"
      [] b = 16 -> "L249"
      [] b = 18 -> "L258"
      [] OTHER -> "L264"

\* mutant: the case of no button pressed left out
LP1_Case_NoIdle(b) ==
    CASE b = 0 -> "L225"
      [] b = 16 -> "L239"
      [] b = 2 -> "L249"
      [] OTHER -> "L264"

\* mutant: the last case taken for every other code as well
LP1_Case_Default(b) ==
    CASE b = 0 -> "L225"
      [] b = 16 -> "L239"
      [] b = 2 -> "L249"
      [] OTHER -> "L258"

\* the case of switch(button_status) taken; L264 is the end of the switch
LP1_Case(b) ==
    CASE b = 0 -> "L225"
      [] b = 16 -> "L239"
      [] b = 2 -> "L249"
      [] b = 18 -> "L258"
      [] OTHER -> "L264"

LED_Pattern_1 ==
    \/ /\ Stmt("L220", LP1_Case(button_status))
       /\ UNCHANGED <<P1_OUT, phase, P2_OUT, P9_OUT, P10_IN, inputs, lat,
                      trace>>
    \* case 0x00
    \/ Stmt("L225", "L226") /\ PMOD_8LD_Output(PMOD_8LD_ALL_OFF)
    \/ Stmt("L226", "L227") /\ LED1_Output(RED_LED_ON)
    \/ Stmt("L227", "L228") /\ LED2_Output(RGB_LED_GREEN)
    \/ Stmt("L228", "L229") /\ Clock_Delay1ms(1000)
    \/ Stmt("L229", "L230") /\ LED1_Output(RED_LED_OFF)
    \/ Stmt("L230", "L231") /\ LED2_Output(RGB_LED_OFF)
    \/ Stmt("L231", "L264") /\ Clock_Delay1ms(1000)
    \* case 0x10
    \/ Stmt("L239", "L240") /\ LED1_Output(RED_LED_ON)
    \/ Stmt("L240", "L241") /\ LED2_Output(RGB_LED_OFF)
    \/ Stmt("L241", "L264") /\ PMOD_8LD_Output(85)
    \* case 0x02
    \/ Stmt("L249", "L250") /\ LED1_Output(RED_LED_OFF)
    \/ Stmt("L250", "L251") /\ LED2_Output(RGB_LED_PINK)
    \/ Stmt("L251", "L264") /\ PMOD_8LD_Output(170)
    \* case 0x12
    \/ Stmt("L258", "L259") /\ LED1_Output(RED_LED_OFF)
    \/ Stmt("L259", "L260") /\ LED2_Output(RGB_LED_OFF)
    \/ Stmt("L260", "L264") /\ PMOD_8LD_Output(PMOD_8LD_ALL_ON)
    \/ Return("L264")

\* ------------------------------------------------------------------------
\* The loops of LED_Pattern_2, LED_Pattern_3 and LED_Pattern_5

\* for (int led_count = init; ...): the initialisation, then the condition
\* (ok: the condition at init)
ForInit(from, init, ok, body, exit) ==
    /\ pc = from
    /\ led_count' = init
    /\ pc' = IF ok THEN body ELSE exit
    /\ UNCHANGED <<stack, call, first, iter, blinked,
                   P1_OUT, phase, P2_OUT, P9_OUT, P10_IN, inputs, lat,
                   button_status, switch_status, sw, trace, invoked>>

\* mutant: the loop left only when every switch is off
Cancel_AllOff(s, own) == s = 0

\* mutant: two pressed buttons end the loop as well
Cancel_OnButtons(s, own) == s # own \/ button_status = 0

\* if (switch_status != own) break;
Cancel(s, own) == s # own

\* the check of the sample, then the update and the condition of the for
\* (next: led_count after the update, ok: the condition at next)
ForNext(from, own, next, ok, body, exit) ==
    /\ pc = from
    /\ IF Cancel(sw, own)
       THEN /\ pc' = exit
            /\ UNCHANGED led_count
       ELSE /\ led_count' = next
            /\ pc' = IF ok THEN body ELSE exit
    /\ UNCHANGED <<stack, call, first, iter, blinked,
                   P1_OUT, phase, P2_OUT, P9_OUT, P10_IN, inputs, lat,
                   button_status, switch_status, sw, trace, invoked>>

\* ------------------------------------------------------------------------
\* LED_Pattern_2

\* mutant: the bound excluded
LP2_Cond_Exclusive(c) == c < 255

LP2_Cond(c) == c <= 255

LP2_Update(c) == c + 1

\* mutant: the switches are read and checked before the step's write
LED_Pattern_2_CheckFirst ==
    \/ Stmt("L268", "L269") /\ LED1_Output(RED_LED_ON)
    \/ Stmt("L269", "L271") /\ LED2_Output(RGB_LED_RED)
    \/ ForInit("L271", 0, LP2_Cond(0), "L275", "L281")
    \/ Sample("L275", "L276")
    \/ /\ pc = "L276"
       /\ pc' = IF Cancel(sw, 1) THEN "L281" ELSE "L273"
       /\ UNCHANGED <<stack, call, first, iter, blinked,
                      P1_OUT, phase, P2_OUT, P9_OUT, P10_IN, inputs, lat,
                      button_status, switch_status, led_count, sw,
                      trace, invoked>>
    \/ Stmt("L273", "L274") /\ PMOD_8LD_Output(ToUint8(led_count))
    \/ /\ pc = "L274"
       /\ Clock_Delay1ms(100)
       /\ led_count' = LP2_Update(led_count)
       /\ pc' = IF LP2_Cond(led_count') THEN "L275" ELSE "L281"
       /\ UNCHANGED <<stack, call, first, iter, blinked,
                      button_status, switch_status, sw, invoked>>
    \/ Return("L281")

LED_Pattern_2 ==
    \/ Stmt("L268", "L269") /\ LED1_Output(RED_LED_ON)
    \/ Stmt("L269", "L271") /\ LED2_Output(RGB_LED_RED)
    \/ ForInit("L271", 0, LP2_Cond(0), "L273", "L281")
    \/ Stmt("L273", "L274") /\ PMOD_8LD_Output(ToUint8(led_count))
    \/ Stmt("L274", "L275") /\ Clock_Delay1ms(100)
    \/ Sample("L275", "L276")
    \/ ForNext("L276", 1, LP2_Update(led_count),
               LP2_Cond(LP2_Update(led_count)), "L273", "L281")
    \/ Return("L281")

\* ------------------------------------------------------------------------
\* LED_Pattern_3

\* mutant: the bound excluded
LP3_Cond_Positive(c) == c > 0

LP3_Cond(c) == c >= 0

LP3_Update(c) == c - 1

LED_Pattern_3 ==
    \/ Stmt("L289", "L290") /\ LED1_Output(RED_LED_OFF)
    \/ Stmt("L290", "L291") /\ LED2_Output(RGB_LED_BLUE)
    \/ ForInit("L291", 255, LP3_Cond(255), "L293", "L301")
    \/ Stmt("L293", "L294") /\ PMOD_8LD_Output(ToUint8(led_count))
    \/ Stmt("L294", "L295") /\ Clock_Delay1ms(100)
    \/ Sample("L295", "L296")
    \/ ForNext("L296", 2, LP3_Update(led_count),
               LP3_Cond(LP3_Update(led_count)), "L293", "L301")
    \/ Return("L301")

\* ------------------------------------------------------------------------
\* LED_Pattern_4

\* the on/off cycles this invocation has completed (nine events each)
Cycles == Len(trace) \div 9

\* mutant: the loop left only when every switch is off
LP4_Break_AllOff(s) == s = 0

\* mutant: the check looks at the code the routine was entered with
LP4_Break_Stale(s) == switch_status # 4

\* if (switch_status != 0x04) break;
LP4_Break(s) == s # 4

LED_Pattern_4 ==
    \/ Stmt("L311", "L312") /\ PMOD_8LD_Output(PMOD_8LD_ALL_ON)
    \/ Stmt("L312", "L313") /\ LED1_Output(RED_LED_ON)
    \/ Stmt("L313", "L314") /\ LED2_Output(RGB_LED_BLUE)
    \/ Stmt("L314", "L315") /\ Clock_Delay1ms(1000)
    \/ Stmt("L315", "L316") /\ PMOD_8LD_Output(PMOD_8LD_ALL_OFF)
    \/ Stmt("L316", "L317") /\ LED1_Output(RED_LED_OFF)
    \/ Stmt("L317", "L318") /\ LED2_Output(RGB_LED_OFF)
    \/ Stmt("L318", "L319") /\ Clock_Delay1ms(1000)
    \/ Sample("L319", "L320")
    \/ /\ pc = "L320"
       /\ LP4_Break(sw)
       /\ pc' = "L325"
       /\ UNCHANGED <<stack, call, first, iter, blinked,
                      P1_OUT, phase, P2_OUT, P9_OUT, P10_IN, inputs, lat,
                      button_status, switch_status, led_count, sw,
                      trace, invoked>>
    \/ /\ pc = "L320"
       /\ ~LP4_Break(sw)
       /\ Cycles < MaxCycles
       /\ pc' = "L311"
       /\ UNCHANGED <<stack, call, first, iter, blinked,
                      P1_OUT, phase, P2_OUT, P9_OUT, P10_IN, inputs, lat,
                      button_status, switch_status, led_count, sw,
                      trace, invoked>>
    \/ Return("L325")

\* ------------------------------------------------------------------------
\* LED_Pattern_5

\* mutant: one shift too many
LP5_Cond_Wide(c) == c <= 256

LP5_Cond(c) == c <= 128

LP5_Update(c) == c * 2

LED_Pattern_5 ==
    \/ Stmt("L333", "L334") /\ LED1_Output(RED_LED_OFF)
    \/ Stmt("L334", "L335") /\ LED2_Output(RGB_LED_OFF)
    \/ ForInit("L335", 1, LP5_Cond(1), "L337", "L345")
    \/ Stmt("L337", "L338") /\ PMOD_8LD_Output(ToUint8(led_count))
    \/ Stmt("L338", "L339") /\ Clock_Delay1ms(500)
    \/ Sample("L339", "L340")
    \/ ForNext("L340", 8, LP5_Update(led_count),
               LP5_Cond(LP5_Update(led_count)), "L337", "L345")
    \/ Return("L345")

\* ------------------------------------------------------------------------
\* The program

Init ==
    /\ pc = "L37"
    /\ stack = <<>>
    /\ P1_OUT \in ResetValues
    /\ P2_OUT \in ResetValues
    /\ P9_OUT \in ResetValues
    /\ P10_IN \in SwtIn
    /\ button_status = 0
    /\ switch_status = 0
    /\ led_count = 0
    /\ sw = 0
    /\ trace = <<>>
    /\ invoked = <<>>
    /\ inputs = <<>>
    /\ call = 0
    /\ first = NoCall
    /\ iter = <<>>
    /\ lat = 0
    /\ phase = 0
    /\ blinked = FALSE

Next ==
    \/ main
    \/ LED_Controller
    \/ LED_Pattern_1
    \/ LED_Pattern_2
    \/ LED_Pattern_3
    \/ LED_Pattern_4
    \/ LED_Pattern_5

Spec == Init /\ [][Next]_vars

\* ------------------------------------------------------------------------
\* LED_Controller called twice in immediate succession with the same
\* arguments: any pair of uint8_t arguments, any content of the output
\* registers before the first call.  T2 is the point between the two calls,
\* T3 the point after the second.

InitTwice ==
    /\ pc = "L349"
    /\ stack = <<"T2">>
    /\ P1_OUT \in ResetValues
    /\ P2_OUT \in ResetValues
    /\ P9_OUT \in ResetValues
    /\ button_status \in BtnIn
    /\ switch_status \in SwtIn
    /\ P10_IN = switch_status
    /\ led_count = 0
    /\ sw = 0
    /\ trace = <<>>
    /\ invoked = <<>>
    /\ inputs = <<>>
    /\ call = 1
    /\ first = NoCall
    /\ iter = <<>>
    /\ lat = 0
    /\ phase = 0
    /\ blinked = FALSE

SecondCall ==
    /\ pc = "T2"
    /\ call = 1
    /\ pc' = "L349"
    /\ stack' = <<"T3">>
    /\ call' = 2
    /\ first' = [trace |-> trace, inputs |-> inputs]
    /\ trace' = <<>>
    /\ invoked' = <<>>
    /\ inputs' = <<>>
    /\ lat' = 0
    /\ UNCHANGED <<P1_OUT, phase, P2_OUT, P9_OUT, P10_IN, iter, blinked,
                   button_status, switch_status, led_count, sw>>

NextTwice ==
    \/ SecondCall
    \/ LED_Controller
    \/ LED_Pattern_1
    \/ LED_Pattern_2
    \/ LED_Pattern_3
    \/ LED_Pattern_4
    \/ LED_Pattern_5

SpecTwice == InitTwice /\ [][NextTwice]_vars

\* LED_Controller called twice with the same switch code, the switches
\* moving alike during both calls, and any button code in the second call
SecondCallButtons ==
    /\ pc = "T2"
    /\ call = 1
    /\ pc' = "L349"
    /\ stack' = <<"T3">>
    /\ call' = 2
    /\ first' = [trace |-> trace, inputs |-> inputs, button |-> button_status]
    /\ button_status' \in BtnIn
    /\ trace' = <<>>
    /\ invoked' = <<>>
    /\ inputs' = <<>>
    /\ lat' = 0
    /\ UNCHANGED <<P1_OUT, phase, P2_OUT, P9_OUT, P10_IN, iter, blinked,
                   switch_status, led_count, sw>>

NextButtons ==
    \/ SecondCallButtons
    \/ LED_Controller
    \/ LED_Pattern_1
    \/ LED_Pattern_2
    \/ LED_Pattern_3
    \/ LED_Pattern_4
    \/ LED_Pattern_5

SpecButtons == InitTwice /\ [][NextButtons]_vars

\* ------------------------------------------------------------------------
\* Reading the history

IsSample(e) == e[1] = "SWT"

IsOutput(e) == e[1] # "SWT"

IsBank(e) == e[1] = "PMOD_8LD"

IsDelay(e) == e[1] = "Delay"

IsBankOrDelay(e) == IsBank(e) \/ IsDelay(e)

\* the output writes and the delays of the call, in order
Outputs(t) == SelectSeq(t, IsOutput)

\* every in-pattern sample of the call so far read v
AllSamples(v) == \A i \in 1..Len(trace) : IsSample(trace[i]) => trace[i][2] = v

\* a bank write of each value of vals, each followed by one delay of ms
Paced(vals, ms) ==
    [i \in 1..(2 * Len(vals)) |->
        IF i % 2 = 1 THEN <<"PMOD_8LD", vals[(i + 1) \div 2]>>
        ELSE <<"Delay", ms>>]

LP1Labels == {"L220", "L225", "L226", "L227", "L228", "L229", "L230", "L231",
              "L239", "L240", "L241", "L249", "L250", "L251",
              "L258", "L259", "L260", "L264"}

LP2Labels == {"L268", "L269", "L271", "L273", "L274", "L275", "L276", "L281"}

LP3Labels == {"L289", "L290", "L291", "L293", "L294", "L295", "L296", "L301"}

LP4Labels == {"L311", "L312", "L313", "L314", "L315", "L316", "L317", "L318",
              "L319", "L320", "L325"}

LP5Labels == {"L333", "L334", "L335", "L337", "L338", "L339", "L340", "L345"}

\* ------------------------------------------------------------------------
\* C1: one call of LED_Controller enters exactly one display routine:
\* LED_Pattern_2 iff the switch code is 0x01, LED_Pattern_3 iff 0x02,
\* LED_Pattern_4 iff 0x04, LED_Pattern_5 iff 0x08, and LED_Pattern_1 for
\* 0x00 and every other code, whatever the button code.

C1_Routine ==
    IF switch_status = 1 THEN "LED_Pattern_2"
    ELSE IF switch_status = 2 THEN "LED_Pattern_3"
    ELSE IF switch_status = 4 THEN "LED_Pattern_4"
    ELSE IF switch_status = 8 THEN "LED_Pattern_5"
    ELSE "LED_Pattern_1"

C1_LabelsOf(name) ==
    CASE name = "LED_Pattern_1" -> LP1Labels
      [] name = "LED_Pattern_2" -> LP2Labels
      [] name = "LED_Pattern_3" -> LP3Labels
      [] name = "LED_Pattern_4" -> LP4Labels
      [] name = "LED_Pattern_5" -> LP5Labels

C1_Dispatch ==
    /\ pc \in LP1Labels \cup LP2Labels \cup LP3Labels \cup LP4Labels \cup LP5Labels
          => pc \in C1_LabelsOf(C1_Routine)
    /\ pc \in C1_LabelsOf(C1_Routine) \cup {"L386"} => invoked = <<C1_Routine>>

C1_Witness ==
    /\ pc = "L386"
    /\ switch_status = 3
    /\ button_status = 237
    /\ invoked = <<"LED_Pattern_1">>

\* ------------------------------------------------------------------------
\* C2: LED_Pattern_2 with every in-pattern sample 0x01 writes the bank
\* 0, 1, ..., 255 in order, one 100 ms delay after each write, and returns
\* after the 256th write with the loop bound reached (led_count = 256).

C2_Ascending ==
    (pc = "L281" /\ AllSamples(1)) =>
        /\ SelectSeq(trace, IsBankOrDelay) = Paced([i \in 1..256 |-> i - 1], 100)
        /\ led_count = 256
        /\ Len(SelectSeq(trace, IsSample)) = 256

C2_Witness == pc = "L281" /\ AllSamples(1) /\ P9_OUT = 255 /\ led_count = 256

\* ------------------------------------------------------------------------
\* C3: LED_Pattern_5 with every in-pattern sample 0x08 writes the bank
\* exactly 1, 2, 4, 8, 16, 32, 64, 128 in order, one 500 ms delay after each
\* write, and returns; 0 and 256 are never written.

C3_Shift ==
    /\ (pc = "L345" /\ AllSamples(8)) =>
          SelectSeq(trace, IsBankOrDelay)
              = Paced(<<1, 2, 4, 8, 16, 32, 64, 128>>, 500)
    /\ pc \in LP5Labels =>
          \A i \in 1..Len(trace) :
              IsBank(trace[i]) => trace[i][2] \notin {0, 256}

C3_Witness == pc = "L345" /\ AllSamples(8) /\ P9_OUT = 128 /\ Len(trace) = 26

\* ------------------------------------------------------------------------
\* C4: LED_Pattern_4 returns only at its end-of-cycle check: when it is
\* about to return, the call consists of full on/off cycles (all on,
\* 1000 ms, all off, 1000 ms, sample), every sample but the last was 0x04
\* and the last was not; and while every sample so far is 0x04 control
\* stays inside the loop, so main does not get to sample again.

C4_Cycle(s) ==
    << <<"PMOD_8LD", 255>>, <<"LED1", 1>>, <<"LED2", 4>>, <<"Delay", 1000>>,
       <<"PMOD_8LD", 0>>, <<"LED1", 0>>, <<"LED2", 0>>, <<"Delay", 1000>>,
       <<"SWT", s>> >>

C4_EndOfCycle ==
    /\ pc = "L325" =>
          /\ Len(trace) >= 9
          /\ Len(trace) % 9 = 0
          /\ \A k \in 1..(Len(trace) \div 9) :
                /\ SubSeq(trace, 9 * k - 8, 9 * k) = C4_Cycle(trace[9 * k][2])
                /\ (trace[9 * k][2] # 4) <=> (k = Len(trace) \div 9)
    /\ (invoked = <<"LED_Pattern_4">> /\ AllSamples(4)) =>
          pc \in LP4Labels \ {"L325"}

C4_Witness == pc = "L325" /\ Len(trace) = 18 /\ sw = 0

\* ------------------------------------------------------------------------
\* C5: with switch code 0x00 and button code 0x00 one call of
\* LED_Controller is exactly one blink: bank 0x00, LED1 on, RGB green,
\* 1000 ms, LED1 off, RGB off, 1000 ms, and nothing else.

C5_Blink ==
    (pc = "L386" /\ switch_status = 0 /\ button_status = 0) =>
        trace = << <<"PMOD_8LD", 0>>, <<"LED1", 1>>, <<"LED2", 2>>,
                   <<"Delay", 1000>>,
                   <<"LED1", 0>>, <<"LED2", 0>>, <<"Delay", 1000>> >>

C5_Witness ==
    pc = "L386" /\ switch_status = 0 /\ button_status = 0 /\ Len(trace) = 7

\* ------------------------------------------------------------------------
\* C6: with switch code 0x00 and button code 0x10, when LED_Controller
\* returns the bank is 0x55, LED1 is on, the RGB LED is off, and the call
\* made no delay.

C6_Button1 ==
    (pc = "L386" /\ switch_status = 0 /\ button_status = 16) =>
        /\ P9_OUT = 85
        /\ BitAnd(P1_OUT, 1) = 1
        /\ BitAnd(P2_OUT, 7) = 0
        /\ \A i \in 1..Len(trace) : ~IsDelay(trace[i])

C6_Witness ==
    pc = "L386" /\ switch_status = 0 /\ button_status = 16 /\ Len(trace) = 3

\* ------------------------------------------------------------------------
\* C7: with switch code 0x00 and button code 0x02, when LED_Controller
\* returns the bank is 0xAA, the RGB LED is 0x05 (red + blue) and LED1 is
\* off.

C7_Button2 ==
    (pc = "L386" /\ switch_status = 0 /\ button_status = 2) =>
        /\ P9_OUT = 170
        /\ BitAnd(P2_OUT, 7) = 5
        /\ BitAnd(P1_OUT, 1) = 0

C7_Witness ==
    pc = "L386" /\ switch_status = 0 /\ button_status = 2 /\ Len(trace) = 3

\* ------------------------------------------------------------------------
\* C8: LED_Controller called twice in a row with the same arguments, the
\* switches taking the same values in both calls, makes the same sequence
\* of output writes and delays both times, whatever the output registers
\* held before the first call.

C8_Idempotent == pc = "T3" => Outputs(trace) = Outputs(first.trace)

C8_Witness ==
    /\ pc = "T3"
    /\ switch_status = 1
    /\ Len(first.trace) = 8
    /\ BitAnd(P2_OUT, 248) = 248

\* ------------------------------------------------------------------------
\* C9: in LED_Pattern_2, LED_Pattern_3 and LED_Pattern_5, if the k-th
\* in-pattern sample is the first that differs from the pattern's code, the
\* routine has made exactly k bank writes, the first k values of its
\* sequence, and returns right after that sample with no further write or
\* delay; every delay is followed at once by a sample.

C9_Value(own, i) ==
    CASE own = 1 -> i - 1
      [] own = 2 -> 256 - i
      [] own = 8 -> 2 ^ (i - 1)

C9_Cancelled(labels, check, exit, own) ==
    (pc \in labels /\ ~AllSamples(own)) =>
        LET S == SelectSeq(trace, IsSample)
            B == SelectSeq(trace, IsBank)
            k == Len(S)
        IN  /\ pc \in {check, exit}
            /\ trace[Len(trace)] = <<"SWT", sw>>
            /\ S[k][2] = sw
            /\ \A i \in 1..(k - 1) : S[i][2] = own
            /\ Len(B) = k
            /\ \A i \in 1..k : B[i][2] = C9_Value(own, i)
            /\ Len(SelectSeq(trace, IsDelay)) = k
            /\ \A i \in 1..(Len(trace) - 1) :
                  IsDelay(trace[i]) => IsSample(trace[i + 1])

C9_SelfCancel ==
    /\ C9_Cancelled(LP2Labels, "L276", "L281", 1)
    /\ C9_Cancelled(LP3Labels, "L296", "L301", 2)
    /\ C9_Cancelled(LP5Labels, "L340", "L345", 8)

C9_Witness ==
    \/ pc = "L281" /\ sw = 3 /\ Len(SelectSeq(trace, IsSample)) = 100
    \/ pc = "L345" /\ sw = 0 /\ Len(SelectSeq(trace, IsSample)) = 5

\* ------------------------------------------------------------------------
\* C10: LED_Pattern_3 with every in-pattern sample 0x02 writes the bank
\* 255, 254, ..., 0 in order, one 100 ms delay after each write, and returns
\* after the 256th write (led_count = -1, never written); LED1 is off and
\* the RGB LED blue from its second statement on.

C10_Descending ==
    /\ (pc = "L301" /\ AllSamples(2)) =>
          /\ SelectSeq(trace, IsBankOrDelay)
                = Paced([i \in 1..256 |-> 256 - i], 100)
          /\ led_count = -1
    /\ pc \in LP3Labels \ {"L289", "L290"} =>
          /\ BitAnd(P1_OUT, 1) = 0
          /\ BitAnd(P2_OUT, 7) = 4
          /\ SubSeq(trace, 1, 2) = << <<"LED1", 0>>, <<"LED2", 4>> >>
          /\ \A i \in 3..Len(trace) : trace[i][1] \notin {"LED1", "LED2"}

C10_Witness == pc = "L301" /\ AllSamples(2) /\ P9_OUT = 0 /\ led_count = -1

\* C11: the poll loop never ends, and each of its iterations reads the
\* buttons once, then the switches once, then calls LED_Controller once with
\* the two codes just read, then waits 100 ms; when the next iteration
\* starts, nothing but the output registers is left of the previous one.
C11_Iteration == <<"BTN", "SWT", "CALL", "RET", "DELAY100">>

C11_MainLabels == {"L51", "L52", "L53", "L54"}

C11_PollLoop ==
    /\ pc \in C11_MainLabels => ENABLED main
    /\ pc = "L51" =>
        /\ iter \in {<<>>, C11_Iteration}
        /\ stack = <<>>
        /\ button_status = 0 /\ switch_status = 0
        /\ led_count = 0 /\ sw = 0
        /\ trace = <<>> /\ invoked = <<>>
    /\ pc = "L52" =>
        /\ iter = SubSeq(C11_Iteration, 1, 1)
        /\ button_status \in {Get_Buttons_Status(in) : in \in BtnIn}
    /\ pc = "L53" =>
        /\ iter = SubSeq(C11_Iteration, 1, 2)
        /\ switch_status = Get_PMOD_SWT_Status
    /\ pc = "L349" =>
        /\ iter = SubSeq(C11_Iteration, 1, 3)
        /\ stack = <<"L54">>
        /\ button_status \in {Get_Buttons_Status(in) : in \in BtnIn}
        /\ switch_status = Get_PMOD_SWT_Status
    /\ pc \notin C11_MainLabels \cup {"L37", "L38", "L41", "L44", "L47"} =>
        /\ iter = SubSeq(C11_Iteration, 1, 3)
        /\ Len(invoked) <= 1
    /\ pc = "L54" =>
        /\ iter = SubSeq(C11_Iteration, 1, 4)
        /\ Len(invoked) = 1

\* an iteration has ended and the next one begins
C11_Witness == pc = "L51" /\ iter = C11_Iteration /\ P9_OUT = 255

\* C12: in every step of LED_Pattern_2, 3, 4 and 5 the writes come first,
\* then the delay, then one read of the switches, then one check of that
\* read; so a routine that returns has written the bank at least once, also
\* when the switches had left its code before its first read.
\* (The record grows by one event per step of the program, so it is enough
\* that in every state its last event is of the kind its position requires.)
C12_Step == <<"PMOD_8LD", "Delay", "SWT">>

C12_Cycle == <<"PMOD_8LD", "LED1", "LED2", "Delay",
               "PMOD_8LD", "LED1", "LED2", "Delay", "SWT">>

\* the labels of one step of a for loop, and the label after the loop
C12_For(write, delay, sample, check, exit) ==
    LET n == Len(trace) - 2
    IN  pc \in {write, delay, sample, check, exit} =>
          /\ n >= 1 => trace[n + 2][1] = C12_Step[((n - 1) % 3) + 1]
          /\ pc = write  => n % 3 = 0
          /\ pc = delay  => n % 3 = 1
          /\ pc = sample => n % 3 = 2
          /\ pc = check  => n % 3 = 0 /\ n >= 3
          /\ pc = exit   => n % 3 = 0 /\ n >= 3

C12_While ==
    LET n == Len(trace)
        at == [l \in LP4Labels \ {"L320", "L325"} |->
                 CASE l = "L311" -> 0 [] l = "L312" -> 1 [] l = "L313" -> 2
                   [] l = "L314" -> 3 [] l = "L315" -> 4 [] l = "L316" -> 5
                   [] l = "L317" -> 6 [] l = "L318" -> 7 [] l = "L319" -> 8]
    IN  pc \in LP4Labels =>
          /\ n >= 1 => trace[n][1] = C12_Cycle[((n - 1) % 9) + 1]
          /\ pc \in DOMAIN at => n % 9 = at[pc]
          /\ pc \in {"L320", "L325"} => n % 9 = 0 /\ n >= 9

C12_WriteDelaySampleCheck ==
    /\ C12_For("L273", "L274", "L275", "L276", "L281")
    /\ C12_For("L293", "L294", "L295", "L296", "L301")
    /\ C12_For("L337", "L338", "L339", "L340", "L345")
    /\ C12_While

\* LED_Pattern_2 returns after one step: the switches left during its
\* first delay, before its first read of them
C12_Witness ==
    /\ pc = "L281"
    /\ Len(trace) = 5
    /\ trace[3] = <<"PMOD_8LD", 0>>
    /\ trace[5][2] # 1

\* C13: once the switch code has moved away from 0x04 while LED_Pattern_4
\* runs, and stays away, the routine returns after at most 2000 ms more of
\* delay, and it returns with LED1, the RGB LED and the bank all off.
\* (lat counts in full the delay during which the code moved away.)
C13_MaxLatency ==
    pc \in LP4Labels =>
        /\ lat <= 2000
        /\ pc \in {"L311", "L312", "L313", "L314"} => lat = 0
        /\ pc = "L325" =>
            /\ lat \in {1000, 2000}
            /\ BitAnd(P1_OUT, 1) = RED_LED_OFF
            /\ BitAnd(P2_OUT, 7) = RGB_LED_OFF
            /\ P9_OUT = PMOD_8LD_ALL_OFF

\* the code moved away during the on phase of the second cycle
C13_Witness == pc = "L325" /\ lat = 2000 /\ Len(trace) = 18

\* C14: while the switch code stays 0x00 and both buttons stay pressed from
\* one iteration of the poll loop to the next, LED1 and the green LED
\* toggle every second: LED1 is switched on after exactly 1000 ms of delay
\* off, and switched off after exactly 1000 ms of delay on, and the bank is
\* off all along.
\* (line 226 switches LED1 on and line 229 switches it off; phase is the
\* delay since the last of the two.)
C14_ToggleEverySecond ==
    (blinked /\ button_status = 0 /\ switch_status = 0) =>
        /\ P9_OUT = PMOD_8LD_ALL_OFF
        /\ pc = "L226" => phase = 1000
        /\ pc = "L229" => phase = 1000

\* C15: a call of LED_Controller with switch code 0x01, 0x02, 0x04 or 0x08
\* never reads the buttons, and two such calls during which the switches
\* read the same, whatever the button codes passed, make the same output
\* writes and delays in the same order.
C15_LongCodes == {1, 2, 4, 8}

C15_ButtonsIgnored ==
    /\ \A i \in DOMAIN iter : iter[i] # "BTN"
    /\ (call = 2 /\ switch_status \in C15_LongCodes) =>
          /\ Len(trace) <= Len(first.trace)
          /\ trace = SubSeq(first.trace, 1, Len(trace))
          /\ pc = "T3" => Outputs(trace) = Outputs(first.trace)

\* LED_Pattern_5 has run twice, cancelled alike, with different button codes
C15_Witness ==
    /\ pc = "T3"
    /\ switch_status = 8
    /\ first.button = 0
    /\ button_status = 18
    /\ Len(Outputs(trace)) = 6

\* ------------------------------------------------------------------------
\* C16: with a switch code other than 0x01, 0x02, 0x04, 0x08 and button code
\* 0x12, when LED_Controller returns LED1 is off, the RGB LED is off and the
\* bank is 0xFF, and the call made no delay.
C16_NoButton ==
    (pc = "L386" /\ switch_status \notin {1, 2, 4, 8} /\ button_status = 18) =>
        /\ BitAnd(P1_OUT, 1) = RED_LED_OFF
        /\ BitAnd(P2_OUT, 7) = RGB_LED_OFF
        /\ P9_OUT = 255
        /\ Len(trace) = 3
        /\ \A i \in 1..Len(trace) : IsOutput(trace[i]) /\ ~IsDelay(trace[i])

C16_Witness ==
    /\ pc = "L386"
    /\ switch_status = 15
    /\ button_status = 18
    /\ trace = << <<"LED1", 0>>, <<"LED2", 0>>, <<"PMOD_8LD", 255>> >>

\* ------------------------------------------------------------------------
\* C17: called with a button code other than 0x00, 0x10, 0x02, 0x12,
\* LED_Pattern_1 goes straight to its end: no step of it changes an output
\* register, writes to a port or waits.
C17_NoCase == BtnIn \ {0, 16, 2, 18}

C17_NoEffect ==
    [][(pc \in LP1Labels /\ button_status \in C17_NoCase) =>
          /\ pc' \in {"L264", "L386"}
          /\ UNCHANGED <<P1_OUT, P2_OUT, P9_OUT, P10_IN, trace>>]_vars

\* the routine has come to its end with nothing recorded
C17_Witness ==
    /\ pc = "L386"
    /\ invoked = <<"LED_Pattern_1">>
    /\ button_status \in C17_NoCase
    /\ trace = <<>>
    /\ P9_OUT = 255

\* ------------------------------------------------------------------------
\* C18: whatever P1->IN and P10->IN read, the button code main passes to
\* LED_Controller is 0x00, 0x02, 0x10 or 0x12 and the switch code is in
\* 0..15; so LED_Pattern_1, called from main, always runs one of its four
\* cases and never falls through its switch with nothing done.
C18_Masked ==
    /\ button_status \in {0, 2, 16, 18}
    /\ switch_status \in 0..15
    /\ pc = "L264" => Len(trace) >= 3
    /\ pc = "L386" => trace # <<>>

\* LED_Pattern_1 at its end, called for the switch code 0x0F
C18_Witness ==
    /\ pc = "L264"
    /\ switch_status = 15
    /\ button_status = 18
    /\ Len(trace) = 3

\* ------------------------------------------------------------------------
\* C19: once Buttons_Init has run, bits 1 and 4 of P1->OUT are 1 in every
\* state; from then on no step changes a bit of P1->OUT other than bit 0,
\* nor a bit of P2->OUT other than bits 0..2.
C19_InitLabels == {"L37", "L38", "L41"}

\* (x \div 2 is bits 1..7 of x, and x \div 8 its bits 3..7)
C19_OnlyLedBits ==
    [][/\ pc' \notin C19_InitLabels =>
            Bit(P1_OUT', 1) = 1 /\ Bit(P1_OUT', 4) = 1
       /\ pc \notin C19_InitLabels =>
            /\ P1_OUT' \div 2 = P1_OUT \div 2
            /\ P2_OUT' \div 8 = P2_OUT \div 8]_vars

\* LED1 switched off and the RGB LED set to pink, the other bits of both
\* registers being 1 since reset
C19_Witness ==
    /\ pc = "L386"
    /\ P1_OUT = 254
    /\ P2_OUT = 248 + RGB_LED_PINK

\* ------------------------------------------------------------------------
\* C20: bit n of the bank is LED n: for every n in 0..7 the constant
\* PMOD_8LD_n_ON is 2^n, and the eight constants are, in this order, the
\* values LED_Pattern_5 writes to the bank when it runs in full.
C20_Constants ==
    <<PMOD_8LD_0_ON, PMOD_8LD_1_ON, PMOD_8LD_2_ON, PMOD_8LD_3_ON,
      PMOD_8LD_4_ON, PMOD_8LD_5_ON, PMOD_8LD_6_ON, PMOD_8LD_7_ON>>

C20_BitToLed ==
    /\ \A n \in 0..7 : C20_Constants[n + 1] = 2 ^ n
    /\ (pc = "L345" /\ AllSamples(8)) =>
          LET bank == SelectSeq(trace, IsBank)
          IN  [i \in 1..Len(bank) |-> bank[i][2]] = C20_Constants

====
